---------------------------- MODULE Spec2Model ----------------------------
(***************************************************************************)
(* File-based route compiler of the blog posts under content/posts:        *)
(*   - the flat compiler   (file-based-routing-with-react-router.mdx,       *)
(*                          file-based-routing-with-react-location-...mdx)  *)
(*   - the tree compiler   (generics-with-typescript.mdx, nested layouts)   *)
(* Strings are TLA+ strings; the regular expressions of the source are      *)
(* written out as scanners over them.                                       *)
(***************************************************************************)
EXTENDS Integers, Sequences, FiniteSets, TLC

(***************************************************************************)
(* Bounds of the model                                                      *)
(***************************************************************************)
\* longest listing drawn from PageFiles
MaxKeys == 3
\* most segments of a generated key (SpecPath)
MaxSegs == 4
\* longest listing drawn from LinkFiles (SpecLink)
MaxLinkKeys == 2
\* most entries one IntersectionObserver callback receives
MaxEntries == 2
\* most calls of route.preload() followed for one Link
MaxPreloads == 3

(***************************************************************************)
(* String helpers (JavaScript String / RegExp primitives)                   *)
(***************************************************************************)
CharAt(s, i) == SubSeq(s, i, i)

\* s.startsWith(p, i - 1)
StartsWithAt(s, i, p) ==
  /\ i + Len(p) - 1 <= Len(s)
  /\ SubSeq(s, i, i + Len(p) - 1) = p

\* the class \w
WordChars ==
  { "a", "b", "c", "d", "e", "f", "g", "h", "i", "j", "k", "l", "m",
    "n", "o", "p", "q", "r", "s", "t", "u", "v", "w", "x", "y", "z",
    "A", "B", "C", "D", "E", "F", "G", "H", "I", "J", "K", "L", "M",
    "N", "O", "P", "Q", "R", "S", "T", "U", "V", "W", "X", "Y", "Z",
    "0", "1", "2", "3", "4", "5", "6", "7", "8", "9", "_" }

\* positions of s holding the character c
Positions(s, c) == { i \in 1..Len(s) : CharAt(s, i) = c }

Max(S) == CHOOSE m \in S : \A n \in S : n <= m
Min(S) == CHOOSE m \in S : \A n \in S : m <= n

\* s.includes(p)
Includes(s, p) == \E i \in 1..Len(s) : StartsWithAt(s, i, p)

RECURSIVE StripFlatFrom(_, _)
\* .replace(/\/src\/pages|index|\.tsx$/g, '') from position i on
StripFlatFrom(s, i) ==
  IF i > Len(s) THEN ""
  ELSE IF StartsWithAt(s, i, "/src/pages") THEN StripFlatFrom(s, i + 10)
  ELSE IF StartsWithAt(s, i, "index") THEN StripFlatFrom(s, i + 5)
  ELSE IF StartsWithAt(s, i, ".tsx") /\ i + 3 = Len(s) THEN ""
  ELSE CharAt(s, i) \o StripFlatFrom(s, i + 1)

RECURSIVE StripTreeFrom(_, _)
\* .replace(/\/src\/pages|\.tsx$/g, '') from position i on
StripTreeFrom(s, i) ==
  IF i > Len(s) THEN ""
  ELSE IF StartsWithAt(s, i, "/src/pages") THEN StripTreeFrom(s, i + 10)
  ELSE IF StartsWithAt(s, i, ".tsx") /\ i + 3 = Len(s) THEN ""
  ELSE CharAt(s, i) \o StripTreeFrom(s, i + 1)

\* .replace(/\[\.{3}.+\]/, '*'): leftmost "[..." that has a "]" at least one
\* character further on; .+ is greedy, so the match ends at the LAST "]"
ReplaceCatchAll(s) ==
  LET starts == { i \in 1..Len(s) :
                    /\ StartsWithAt(s, i, "[...")
                    /\ \E j \in Positions(s, "]") : j >= i + 5 }
  IN IF starts = {} THEN s
     ELSE LET i == Min(starts)
              j == Max(Positions(s, "]"))
          IN SubSeq(s, 1, i - 1) \o "*" \o SubSeq(s, j + 1, Len(s))

\* .replace(/\[(.+)\]/, ':$1'): leftmost "[" that has a "]" at least two
\* characters further on; greedy, not global
ReplaceDynamic(s) ==
  LET starts == { i \in Positions(s, "[") :
                    \E j \in Positions(s, "]") : j >= i + 2 }
  IN IF starts = {} THEN s
     ELSE LET i == Min(starts)
              j == Max(Positions(s, "]"))
          IN SubSeq(s, 1, i - 1) \o ":" \o SubSeq(s, i + 1, j - 1)
               \o SubSeq(s, j + 1, Len(s))

RECURSIVE SplitFrom(_, _, _)
\* .split('/').filter(Boolean): cur is the token being read
SplitFrom(s, i, cur) ==
  IF i > Len(s)
  THEN IF cur = "" THEN << >> ELSE << cur >>
  ELSE IF CharAt(s, i) = "/"
  THEN (IF cur = "" THEN << >> ELSE << cur >>) \o SplitFrom(s, i + 1, "")
  ELSE SplitFrom(s, i + 1, cur \o CharAt(s, i))

RECURSIVE SegPathFrom(_, _)
\* segment.replace(/index|\./g, '/') from position i on
SegPathFrom(s, i) ==
  IF i > Len(s) THEN ""
  ELSE IF StartsWithAt(s, i, "index") THEN "/" \o SegPathFrom(s, i + 5)
  ELSE IF CharAt(s, i) = "." THEN "/" \o SegPathFrom(s, i + 1)
  ELSE CharAt(s, i) \o SegPathFrom(s, i + 1)

\* a path derivation without the catch-all replace
FlatPathNoCatchAll(key) == ReplaceDynamic(StripFlatFrom(key, 1))

(***************************************************************************)
(* Path derivation                                                          *)
(***************************************************************************)
\* flat compiler: const path = route.replace(...).replace(...).replace(...)
FlatPath(key) == ReplaceDynamic(ReplaceCatchAll(StripFlatFrom(key, 1)))

\* tree compiler: const segments = key.replace(...)....split('/').filter(Boolean)
Segments(key) ==
  SplitFrom(ReplaceDynamic(ReplaceCatchAll(StripTreeFrom(key, 1))), 1, "")

RECURSIVE SegPathIndexOnlyFrom(_, _)
\* a replace(/index/g, '/') that leaves the dots of a segment alone
SegPathIndexOnlyFrom(s, i) ==
  IF i > Len(s) THEN ""
  ELSE IF StartsWithAt(s, i, "index")
  THEN "/" \o SegPathIndexOnlyFrom(s, i + 5)
  ELSE CharAt(s, i) \o SegPathIndexOnlyFrom(s, i + 1)

SegPathIndexOnly(segment) == SegPathIndexOnlyFrom(segment, 1)

\* tree compiler: const path = segment.replace(/index|\./g, '/')
SegPath(segment) == SegPathFrom(segment, 1)

\* const insert = /^\w|\//.test(path) ? 'unshift' : 'push'
Insert(path) ==
  IF (Len(path) > 0 /\ CharAt(path, 1) \in WordChars) \/ Includes(path, "/")
  THEN "unshift" ELSE "push"

\* const dynamic = path.startsWith(':') || path === '*'
Dynamic(path) == StartsWithAt(path, 1, ":") \/ path = "*"


(***************************************************************************)
(* Listings: what import.meta.glob('/src/pages/**/[a-z[]*.tsx') returns     *)
(***************************************************************************)
RECURSIVE JoinSegs(_)
\* "/" \o segment, for every segment of a file's location under src/pages
JoinSegs(segs) ==
  IF segs = << >> THEN "" ELSE "/" \o Head(segs) \o JoinSegs(Tail(segs))

\* the key the glob import gives the page file at src/pages/<segs>.tsx
Key(segs) == "/src/pages" \o JoinSegs(segs) \o ".tsx"

\* page files of the posts' examples, the listings are drawn from
PageFiles ==
  { Key(<<"index">>),
    Key(<<"posts", "index">>),
    Key(<<"posts", "[slug]">>),
    Key(<<"posts", "[slug].edit">>),
    Key(<<"posts", "[slug]", "comments">>),
    Key(<<"settings">>),
    Key(<<"settings", "account">>),
    Key(<<"settings", "profile">>),
    Key(<<"settings", "profile", "info">>),
    Key(<<"settings", "profile", "edit">>),
    Key(<<"settings", "profile.info">>),
    Key(<<"[...all]">>),
    Key(<<"[user]", "settings">>),
    Key(<<"[user]", "settings", "profile">>),
    Key(<<"[user]", "settings", "profile", "info">>) }

\* Object.keys(ROUTES): distinct keys, in any enumeration order
Listings ==
  { l \in UNION { [1..n -> PageFiles] : n \in 0..MaxKeys } :
      \A i, j \in DOMAIN l : l[i] = l[j] => i = j }

\* segment names of generated keys
SegNames ==
  { "index", "reindex", "indexes", "posts", "[user]", "[slug]", "[...all]" }

\* every key of at most MaxSegs segments over SegNames
GeneratedKeys ==
  { Key(segs) : segs \in UNION { [1..n -> SegNames] : n \in 1..MaxSegs } }

(***************************************************************************)
(* State                                                                    *)
(***************************************************************************)
VARIABLES
  mode,           \* "flat" (routes.map) or "tree" (nested layouts reduce)
  ROUTES,         \* Object.keys(ROUTES), the listing
  pc,             \* "key": at the next key, "segment": inside segments.reduce,
                  \* "done", or "error" (an uncaught TypeError)
  ki,             \* position in Object.keys(ROUTES) of the key being compiled
  routes,         \* flat compiler: the routes array built so far
  regularRoutes,  \* tree compiler: the accumulator `routes` (node ids)
  nodes,          \* tree compiler: the route objects, by identity
  segments,       \* tree compiler: segments of the key being compiled
  index,          \* tree compiler: index of segments.reduce (0-based)
  parent,         \* tree compiler: accumulator of segments.reduce
  previous,       \* the tree of an earlier run over the same modules, if any
  mounted,        \* Link: rendered and committed at least once
  to,             \* Link: the prop to
  prefetch,       \* Link: the prop prefetch
  route,          \* Link: useMemo(() => getMatchingRoute(to)), 0 for undefined
  prefetched,     \* Link: the state prefetched as the last render saw it
  queued,         \* Link: setPrefetched(true) was called, render still to come
  prefetchable,   \* Link: prefetchable as the last render computed it
  observer,       \* Link: an IntersectionObserver observes the anchor
  preloads,       \* Link: number of calls of route.preload() so far
  files,          \* the files below the project root
  defaults,       \* the files among them that have a default export
  PRESERVED,      \* Object.keys(PRESERVED)
  preserved,      \* the object preserved, a function from its keys
  App,            \* Routes: the wrapper, "" before Routes has rendered
  NotFound,       \* Routes: the component of the "*" route, "" likewise
  eager,          \* ROUTES is of import.meta.globEager, not import.meta.glob
  loaders,        \* the files that export a loader
  rendered,       \* Routes: the route entries in the order they are given
  location,       \* the location last visited, "" for none
  matched,        \* the index in rendered of the entry shown for location
  shown,          \* what that entry renders, "" before any and while loading
  request,        \* the call of route.element() or route.loader(...args)
                  \* that is followed
  invoked         \* the calls of the exported loader made for it, in order

vars ==
  << mode, ROUTES, pc, ki, routes, regularRoutes, nodes, segments, index,
     parent, previous, mounted, to, prefetch, route, prefetched, queued,
     prefetchable, observer, preloads, files, defaults, PRESERVED, preserved,
     App, NotFound, eager, loaders, rendered, location, matched, shown,
     request, invoked >>

\* the state of a Link
linkVars ==
  << mounted, to, prefetch, route, prefetched, queued, prefetchable, observer,
     preloads >>

\* the files of the project, the preserved files and what Routes makes of them
pageVars == << files, defaults, PRESERVED, preserved, App, NotFound >>

\* what the router renders and loads
viewVars ==
  << eager, loaders, rendered, location, matched, shown, request, invoked >>

\* the state the compilers do not touch
outside == << previous, linkVars, pageVars, viewVars >>

\* the initial value {} of segments.reduce
EmptyObject == [t |-> "object"]
\* the value undefined
Undefined == [t |-> "undefined"]
\* a reference to the route object nodes[id]
Ref(id) == [t |-> "route", id |-> id]

\* a route object without element/loader: { path, children: [] }
NoRoute == "none"

\* no earlier run
NoTree == [t |-> "none"]

\* the object {}
NoKeys == [ k \in {} |-> "" ]

\* no call of element or loader is followed
NoRequest ==
  [what |-> "none", key |-> "", args |-> << >>, state |-> "none",
   result |-> [t |-> "none"]]

\* no Link, no earlier run, nothing rendered
InitOutside ==
  /\ previous = NoTree
  /\ mounted = FALSE
  /\ to = ""
  /\ prefetch = TRUE
  /\ route = 0
  /\ prefetched = FALSE
  /\ queued = FALSE
  /\ prefetchable = FALSE
  /\ observer = FALSE
  /\ preloads = 0
  /\ PRESERVED = << >>
  /\ preserved = NoKeys
  /\ App = ""
  /\ NotFound = ""
  /\ rendered = << >>
  /\ location = ""
  /\ matched = 0
  /\ shown = ""
  /\ request = NoRequest
  /\ invoked = << >>

InitWith(listings) ==
  /\ mode \in { "flat", "tree" }
  /\ ROUTES \in listings
  /\ pc = IF Len(ROUTES) = 0 THEN "done" ELSE "key"
  /\ ki = 1
  /\ routes = << >>
  /\ regularRoutes = << >>
  /\ nodes = << >>
  /\ segments = << >>
  /\ index = 0
  /\ parent = EmptyObject
  /\ files = { ROUTES[i] : i \in DOMAIN ROUTES }
  /\ defaults = files
  /\ eager = FALSE
  /\ loaders = {}
  /\ InitOutside

Init == InitWith(Listings)

InitPath == InitWith({ << k >> : k \in GeneratedKeys })

(***************************************************************************)
(* Flat compiler: Object.keys(ROUTES).map((route) => ...)                   *)
(***************************************************************************)
\* return { path, component: ROUTES[route].default }
FlatRoute(key) == [path |-> FlatPath(key), component |-> key]

\* a map that puts each result in front of the earlier ones
FlatEmitFront(acc, r) == << r >> \o acc

\* what map does with the callback's result
FlatEmit(acc, r) == Append(acc, r)

\* the next key, or the end of Object.keys(ROUTES)
NextKey ==
  /\ ki' = ki + 1
  /\ pc' = IF ki = Len(ROUTES) THEN "done" ELSE "key"

FlatMap ==
  /\ mode = "flat"
  /\ pc = "key"
  /\ routes' = FlatEmit(routes, FlatRoute(ROUTES[ki]))
  /\ NextKey
  /\ UNCHANGED << mode, ROUTES, regularRoutes, nodes, segments, index, parent >>
  /\ UNCHANGED outside

(***************************************************************************)
(* Tree compiler: Object.keys(ROUTES).reduce((routes, key) => ...)          *)
(***************************************************************************)
segment == segments[index + 1]
path == SegPath(segment)
root == index = 0
leaf == index = Len(segments) - 1 /\ Len(segments) > 1
node == ~root /\ ~leaf
insert == Insert(path)
dynamic == Dynamic(path)
last == Len(segments) = 1

\* array[method](id)
Apply(array, method, id) ==
  IF method = "unshift" THEN << id >> \o array ELSE Append(array, id)

\* a find that never finds
FindNothing(array, p) == 0

\* array.find((route) => route.path === p): the first such id, 0 for none
Find(array, p) ==
  LET hits == { i \in DOMAIN array : nodes[array[i]].path = p }
  IN IF hits = {} THEN 0 ELSE array[Min(hits)]

\* the callback returns cursor: next segment, or next key with parent = {}
Return(cursor) ==
  IF index + 1 < Len(segments)
  THEN /\ index' = index + 1
       /\ parent' = cursor
       /\ UNCHANGED << ki, pc, segments >>
  ELSE /\ index' = 0
       /\ parent' = EmptyObject
       /\ segments' = << >>
       /\ NextKey

\* const segments = key.replace(...)...; segments.reduce(..., {})
TreeKey ==
  /\ mode = "tree"
  /\ pc = "key"
  /\ index' = 0
  /\ parent' = EmptyObject
  /\ IF Segments(ROUTES[ki]) = << >>
     THEN /\ segments' = << >>
          /\ NextKey
     ELSE /\ segments' = Segments(ROUTES[ki])
          /\ pc' = "segment"
          /\ ki' = ki
  /\ UNCHANGED << mode, ROUTES, routes, regularRoutes, nodes >>
  /\ UNCHANGED outside

InTree == mode = "tree" /\ pc = "segment"

\* if (dynamic) return parent
TreeRootDynamic ==
  /\ InTree /\ root /\ dynamic
  /\ Return(parent)
  /\ UNCHANGED << mode, ROUTES, routes, regularRoutes, nodes >>
  /\ UNCHANGED outside

\* if (last) { routes.push({ path, ...route }); return parent }
TreeRootLast ==
  /\ InTree /\ root /\ ~dynamic /\ last
  /\ nodes' = Append(nodes, [path |-> path, route |-> ROUTES[ki],
                             hasChildren |-> FALSE, children |-> << >>])
  /\ regularRoutes' = Apply(regularRoutes, "push", Len(nodes) + 1)
  /\ Return(parent)
  /\ UNCHANGED << mode, ROUTES, routes >>
  /\ UNCHANGED outside

\* const current = root ? routes : parent.children, with parent undefined
TreeTypeError ==
  /\ InTree /\ node
  /\ parent = Undefined
  /\ pc' = "error"
  /\ UNCHANGED << mode, ROUTES, ki, routes, regularRoutes, nodes, segments,
                  index, parent >>
  /\ UNCHANGED outside

\* current is defined: the forest, or the children array parent has
CurrentDefined ==
  root \/ (parent.t = "route" /\ nodes[parent.id].hasChildren)

current == IF root THEN regularRoutes ELSE nodes[parent.id].children

\* a cursor that is always read back at index 0
CursorIndexFront(method, array) == 1

\* where the cursor is read back after an insertion
CursorIndex(method, array) == IF method = "unshift" THEN 1 ELSE Len(array)

\* if (root || node) { ... find, children ??= [], insert, return ... }
TreeRootOrNode ==
  /\ InTree
  /\ (root /\ ~dynamic /\ ~last) \/ node
  /\ parent # Undefined \/ root
  /\ IF ~CurrentDefined
     THEN \* current?.find, current?.[insert] do nothing; undefined is returned
          /\ Return(Undefined)
          /\ UNCHANGED << regularRoutes, nodes >>
     ELSE LET found == Find(current, path)
              fresh == Len(nodes) + 1
              grown == Apply(current, insert, fresh)
          IN IF found # 0
             THEN /\ nodes' = [nodes EXCEPT ![found].hasChildren = TRUE]
                  /\ UNCHANGED regularRoutes
                  /\ Return(Ref(found))
             ELSE /\ IF root
                     THEN /\ regularRoutes' = grown
                          /\ nodes' = Append(nodes,
                               [path |-> path, route |-> NoRoute,
                                hasChildren |-> TRUE, children |-> << >>])
                     ELSE /\ UNCHANGED regularRoutes
                          /\ nodes' = Append(
                               [nodes EXCEPT ![parent.id].children = grown],
                               [path |-> path, route |-> NoRoute,
                                hasChildren |-> TRUE, children |-> << >>])
                  /\ Return(Ref(grown[CursorIndex(insert, grown)]))
  /\ UNCHANGED << mode, ROUTES, routes >>
  /\ UNCHANGED outside

\* if (leaf) { parent?.children?.[insert]({ path, ...route }) } return parent
TreeLeaf ==
  /\ InTree /\ leaf
  /\ IF parent.t = "route" /\ nodes[parent.id].hasChildren
     THEN nodes' = Append(
            [nodes EXCEPT ![parent.id].children =
               Apply(nodes[parent.id].children, insert, Len(nodes) + 1)],
            [path |-> path, route |-> ROUTES[ki],
             hasChildren |-> FALSE, children |-> << >>])
     ELSE UNCHANGED nodes
  /\ Return(parent)
  /\ UNCHANGED << mode, ROUTES, routes, regularRoutes >>
  /\ UNCHANGED outside

Next ==
  \/ FlatMap
  \/ TreeKey
  \/ TreeRootDynamic
  \/ TreeRootLast
  \/ TreeTypeError
  \/ TreeRootOrNode
  \/ TreeLeaf

\* compile a listing of page files
Spec == Init /\ [][Next]_vars

\* compile a single generated key
SpecPath == InitPath /\ [][Next]_vars

(***************************************************************************)
(* Vocabulary of the properties                                             *)
(***************************************************************************)
\* the segments of a page file's location, as written in the key
RawSegments(key) == SplitFrom(StripTreeFrom(key, 1), 1, "")

LastChar(s) == CharAt(s, Len(s))

\* [...name]
IsCatchAllSeg(seg) ==
  Len(seg) >= 6 /\ StartsWithAt(seg, 1, "[...") /\ LastChar(seg) = "]"
     /\ Positions(seg, "[") = { 1 } /\ Positions(seg, "]") = { Len(seg) }

\* [name]
IsDynamicSeg(seg) ==
  Len(seg) >= 3 /\ CharAt(seg, 1) = "[" /\ LastChar(seg) = "]"
     /\ ~StartsWithAt(seg, 2, "...")
     /\ Positions(seg, "[") = { 1 } /\ Positions(seg, "]") = { Len(seg) }

\* a segment without brackets
IsStaticSeg(seg) == Positions(seg, "[") = {} /\ Positions(seg, "]") = {}

\* a static segment that neither holds "index" nor a "."
IsPlainSeg(seg) ==
  IsStaticSeg(seg) /\ ~Includes(seg, "index") /\ ~Includes(seg, ".")

\* the path component a segment stands for: [name] -> :name, [...name] -> *
Component(seg) ==
  IF IsCatchAllSeg(seg) THEN "*"
  ELSE IF IsDynamicSeg(seg) THEN ":" \o SubSeq(seg, 2, Len(seg) - 1)
  ELSE seg

Components(segs) == [i \in DOMAIN segs |-> Component(segs[i])]

\* the keys the flat compiler has mapped so far
Mapped == IF mode = "flat" THEN 1..Len(routes) ELSE {}

\* the tree compiler is at a key and has its segments
AtKey == mode = "tree" /\ pc = "segment"

FlatDone == mode = "flat" /\ pc = "done"
TreeDone == mode = "tree" /\ pc = "done"

(***************************************************************************)
(* C1 - C5: path derivation and the flat compiler                           *)
(***************************************************************************)
ScenarioFlat ==
  << Key(<<"index">>), Key(<<"posts", "index">>), Key(<<"posts", "[slug]">>) >>

\* C1: the flat compiler maps the listing index, posts/index, posts/[slug]
\* to the paths "/", "/posts" and "/posts/:slug", in that order.
C1_FlatScenarioPaths ==
  (FlatDone /\ ROUTES = ScenarioFlat)
    => [i \in DOMAIN routes |-> routes[i].path]
         = << "/", "/posts", "/posts/:slug" >>

\* C2: in a key made of plain static and dynamic segments, every [name]
\* becomes :name and every other segment stays as it is, in the flat path
\* and in the tree compiler's segments.
C2_EveryDynamicSegment ==
  /\ \A i \in Mapped :
       LET raw == RawSegments(ROUTES[i])
       IN (\A j \in DOMAIN raw : IsDynamicSeg(raw[j]) \/ IsPlainSeg(raw[j]))
            => routes[i].path = JoinSegs(Components(raw))
  /\ AtKey =>
       LET raw == RawSegments(ROUTES[ki])
       IN (\A j \in DOMAIN raw : IsDynamicSeg(raw[j]) \/ IsPlainSeg(raw[j]))
            => segments = Components(raw)

\* the key of the page file one directory level up the last segment
Front(segs) == SubSeq(segs, 1, Len(segs) - 1)

\* C3: a key whose last segment is a catch-all compiles to what the segments
\* before it compile to, followed by the component "*".
C3_CatchAllLast ==
  /\ \A i \in Mapped :
       LET raw == RawSegments(ROUTES[i])
       IN IsCatchAllSeg(raw[Len(raw)])
            => routes[i].path = FlatPath(Key(Front(raw))) \o "/*"
  /\ AtKey =>
       LET raw == RawSegments(ROUTES[ki])
       IN IsCatchAllSeg(raw[Len(raw)])
            => segments = Segments(Key(Front(raw))) \o << "*" >>

\* C4: a static segment that holds "index" without being "index" is kept as
\* it is: in the flat path (keys of static segments, none named index) and
\* in the tree compiler's path of that segment.
C4_OnlyLiteralIndex ==
  /\ \A i \in Mapped :
       LET raw == RawSegments(ROUTES[i])
       IN (\A j \in DOMAIN raw :
             IsStaticSeg(raw[j]) /\ raw[j] # "index" /\ ~Includes(raw[j], "."))
            => routes[i].path = JoinSegs(raw)
  /\ (AtKey /\ IsStaticSeg(segment) /\ segment # "index"
         /\ ~Includes(segment, "."))
       => path = segment

\* C5: the flat compiler's output holds one descriptor per key compiled so
\* far, in the order of the listing, each with the path and the component of
\* its own key; [user]/settings gives /:user/settings.
C5_FlatOnePerKeyInOrder ==
  mode = "flat" =>
    /\ Len(routes) = ki - 1
    /\ (pc = "done" => Len(routes) = Len(ROUTES))
    /\ \A i \in DOMAIN routes :
         /\ routes[i].component = ROUTES[i]
         /\ routes[i].path = FlatPath(ROUTES[i])
         /\ (ROUTES[i] = Key(<<"[user]", "settings">>)
               => routes[i].path = "/:user/settings")

\* a compiled listing of three keys with [user]/settings not in first place
C5_Witness ==
  /\ FlatDone
  /\ Len(routes) = 3
  /\ \E i \in 2..3 : routes[i].path = "/:user/settings"

(***************************************************************************)
(* Vocabulary of the tree                                                   *)
(***************************************************************************)
Range(f) == { f[i] : i \in DOMAIN f }

NodeIds == DOMAIN nodes

\* the children array of a route object, empty when it has none
ChildrenOf(n) == IF nodes[n].hasChildren THEN nodes[n].children ELSE << >>

\* every sibling list: the forest and each children array
SiblingLists ==
  { regularRoutes } \cup { nodes[n].children : n \in { m \in NodeIds : nodes[m].hasChildren } }

\* the route object whose children array holds n
ParentOf(n) == CHOOSE m \in NodeIds : n \in Range(ChildrenOf(m))

RECURSIVE Fragments(_)
\* the path fragments from the forest root down to n
Fragments(n) ==
  IF n \in Range(regularRoutes) THEN << nodes[n].path >>
  ELSE Append(Fragments(ParentOf(n)), nodes[n].path)

\* the paths held by a list of route objects
PathsOf(list) == [i \in DOMAIN list |-> nodes[list[i]].path]

\* a route object carrying the element/loader of key, without children
IsLeafFor(n, p, key) ==
  nodes[n].path = p /\ nodes[n].route = key /\ ~nodes[n].hasChildren

\* the route objects carrying the element/loader of key
Carriers(key) == { n \in NodeIds : nodes[n].route = key }

\* the tree compiler stopped: all keys compiled, or a TypeError ended the run
TreeEnded == mode = "tree" /\ pc \in { "done", "error" }

(***************************************************************************)
(* C6 - C10: the tree compiler                                              *)
(***************************************************************************)
\* C6: when the tree compiler has ended, every key whose first segment is
\* not dynamic or catch-all has exactly one route object carrying its
\* element/loader, and the fragments from the forest root down to it are the
\* paths of the key's segments; the other keys have none.
C6_TreeBijection ==
  TreeEnded =>
    \A i \in DOMAIN ROUTES :
      LET segs == Segments(ROUTES[i])
      IN IF Dynamic(SegPath(segs[1]))
         THEN Carriers(ROUTES[i]) = {}
         ELSE /\ Cardinality(Carriers(ROUTES[i])) = 1
              /\ \A n \in Carriers(ROUTES[i]) :
                   Fragments(n) = [j \in DOMAIN segs |-> SegPath(segs[j])]

\* C7: while the tree compiler is at a key whose first segment is dynamic or
\* catch-all, no step raises an error and no step changes the forest or a
\* route object.
C7_DynamicRootSkipped ==
  [][ (AtKey /\ Dynamic(SegPath(segments[1])))
        => /\ pc' # "error"
           /\ nodes' = nodes
           /\ regularRoutes' = regularRoutes ]_vars

KeyAccount == Key(<<"settings", "account">>)
KeyProfileInfo == Key(<<"settings", "profile", "info">>)
KeyProfileDotInfo == Key(<<"settings", "profile.info">>)

\* C8: settings/account and settings/profile/info compile to one forest
\* entry /settings with the children /account (a leaf) and /profile, whose
\* one child is the leaf /info.
C8_NestedScenario ==
  (TreeDone /\ Range(ROUTES) = { KeyAccount, KeyProfileInfo })
    => /\ PathsOf(regularRoutes) = << "/settings" >>
       /\ LET kids == ChildrenOf(regularRoutes[1])
          IN /\ Len(kids) = 2
             /\ \E a, b \in Range(kids) :
                  /\ IsLeafFor(a, "/account", KeyAccount)
                  /\ nodes[b].path = "/profile"
                  /\ Len(ChildrenOf(b)) = 1
                  /\ IsLeafFor(ChildrenOf(b)[1], "/info", KeyProfileInfo)

C10_StaticBeforeDynamic ==
  mode = "tree" =>
    \A list \in SiblingLists :
      \A i, j \in DOMAIN list :
        (i < j /\ Dynamic(nodes[list[i]].path))
          => Dynamic(nodes[list[j]].path)

(***************************************************************************)
(* C11 - C13: shape of the tree                                             *)
(***************************************************************************)
\* C12: no sibling list of the tree, the forest or a children array, holds
\* two route objects with the same path.
C12_NoDuplicatePaths ==
  mode = "tree" =>
    \A list \in SiblingLists :
      \A i, j \in DOMAIN list :
        nodes[list[i]].path = nodes[list[j]].path => i = j

RECURSIVE Chain(_)
\* the route objects from the forest root down to n
Chain(n) ==
  IF n \in Range(regularRoutes) THEN << n >>
  ELSE Append(Chain(ParentOf(n)), n)

\* two modules that both continue below a shared prefix of p segments sit
\* below one and the same route object for that prefix, which has a children
\* array holding the next route object of both
SharedParents ==
  mode = "tree" =>
    \A i, j \in DOMAIN ROUTES :
      \A a \in Carriers(ROUTES[i]), b \in Carriers(ROUTES[j]) :
        \A p \in 1..(Min({ Len(Chain(a)), Len(Chain(b)) }) - 1) :
          PathsOf(SubSeq(Chain(a), 1, p)) = PathsOf(SubSeq(Chain(b), 1, p))
            => /\ Chain(a)[p] = Chain(b)[p]
               /\ nodes[Chain(a)[p]].hasChildren
               /\ { Chain(a)[p + 1], Chain(b)[p + 1] }
                    \subseteq Range(nodes[Chain(a)[p]].children)

\* a step keeps the path, the element/loader and the children of every
\* route object there is
KeepsRouteObjects ==
  \A n \in NodeIds :
    /\ nodes'[n].path = nodes[n].path
    /\ nodes'[n].route = nodes[n].route
    /\ Range(ChildrenOf(n)) \subseteq Range(nodes'[n].children)
    /\ nodes[n].hasChildren => nodes'[n].hasChildren

\* C13: modules that share a prefix and continue below it share one route
\* object for it, with a children array that holds the next route object of
\* each; no step removes or replaces the children or the element/loader of a
\* route object.
C13_SharedParentReuse == [][ KeepsRouteObjects /\ SharedParents' ]_vars

(***************************************************************************)
(* C11: the same modules, enumerated in another order                       *)
(***************************************************************************)
RECURSIVE View(_), ListView(_)
\* a route object up to identity and sibling position
View(n) ==
  [ path |-> nodes[n].path,
    route |-> nodes[n].route,
    hasChildren |-> nodes[n].hasChildren,
    children |-> ListView(nodes[n].children) ]

\* a sibling list as the set of its route objects, with the order it gives
\* to each pair of a static and a dynamic one
ListView(list) ==
  [ members |-> { View(list[i]) : i \in DOMAIN list },
    order |-> { << View(list[i]), View(list[j]) >> :
                  << i, j >> \in
                    { ij \in (DOMAIN list) \X (DOMAIN list) :
                        /\ ij[1] < ij[2]
                        /\ Dynamic(nodes[list[ij[1]]].path)
                             # Dynamic(nodes[list[ij[2]]].path) } } ]

\* the orders Object.keys can give the modules of a listing
KeyOrders(listing) ==
  { p \in [ DOMAIN listing -> Range(listing) ] :
      \A i, j \in DOMAIN listing : p[i] = p[j] => i = j }

\* a second run of the reduce, over the same modules in some order
Recompile ==
  /\ mode = "tree" /\ pc = "done"
  /\ previous = NoTree
  /\ previous' = [ t |-> "tree", view |-> ListView(regularRoutes) ]
  /\ ROUTES' \in KeyOrders(ROUTES)
  /\ pc' = IF Len(ROUTES) = 0 THEN "done" ELSE "key"
  /\ ki' = 1
  /\ regularRoutes' = << >>
  /\ nodes' = << >>
  /\ segments' = << >>
  /\ index' = 0
  /\ parent' = EmptyObject
  /\ UNCHANGED << mode, routes, linkVars, pageVars, viewVars >>

NextOrder ==
  \/ Next
  \/ Recompile

\* two runs of the tree compiler over the same set of modules
SpecOrder == Init /\ [][NextOrder]_vars

\* C11: two runs of the tree compiler over the same modules, whatever the two
\* processing orders, end with structurally equal trees: the same route
\* objects below the same parents, and the same order between each static
\* and each dynamic sibling.
C11_OrderIndependent ==
  (mode = "tree" /\ pc = "done" /\ previous # NoTree)
    => ListView(regularRoutes) = previous.view

(***************************************************************************)
(* Matcher: getMatchingRoute of components/link.tsx                         *)
(***************************************************************************)
RECURSIVE WordEnd(_, _)
\* the position after the run of \w characters that starts at i
WordEnd(s, i) ==
  IF i <= Len(s) /\ CharAt(s, i) \in WordChars THEN WordEnd(s, i + 1) ELSE i

RECURSIVE ReplaceDynamicSegmentsFrom(_, _)
\* .replace(/:\w+|\*/g, '.*') from position i on
ReplaceDynamicSegmentsFrom(s, i) ==
  IF i > Len(s) THEN ""
  ELSE IF CharAt(s, i) = ":" /\ WordEnd(s, i + 1) > i + 1
    THEN ".*" \o ReplaceDynamicSegmentsFrom(s, WordEnd(s, i + 1))
  ELSE IF CharAt(s, i) = "*"
    THEN ".*" \o ReplaceDynamicSegmentsFrom(s, i + 1)
  ELSE CharAt(s, i) \o ReplaceDynamicSegmentsFrom(s, i + 1)

\* route.path.replace(routeDynamicSegments, '.*'), the source of the RegExp
routeDynamicSegments(pattern) == ReplaceDynamicSegmentsFrom(pattern, 1)

RECURSIVE RegExpEnd(_, _, _, _), Greedy(_, _, _, _, _)
\* the backtracking matcher of RegExp: the position after the match it
\* prefers for the rest of the pattern re, from r on, against s from i on, or
\* 0 when there is none.  The compiled paths of the page files hold no
\* RegExp syntax other than ".", and the ".*" the replace puts in.
RegExpEnd(re, r, s, i) ==
  IF r > Len(re) THEN i
  ELSE IF StartsWithAt(re, r, ".*") THEN Greedy(re, r + 2, s, i, Len(s) + 1)
  ELSE IF i > Len(s) THEN 0
  ELSE IF CharAt(re, r) = "." \/ CharAt(re, r) = CharAt(s, i)
    THEN RegExpEnd(re, r + 1, s, i + 1)
  ELSE 0

\* ".*" is greedy: it first takes everything up to k, then gives back one
\* character at a time until the rest of the pattern matches
Greedy(re, r, s, i, k) ==
  LET e == RegExpEnd(re, r, s, k)
  IN IF e # 0 THEN e
     ELSE IF k = i THEN 0
     ELSE Greedy(re, r, s, i, k - 1)

RECURSIVE MatchFrom(_, _, _)
\* the leftmost match at or after position start: << text >>, or << >>
MatchFrom(re, s, start) ==
  IF start > Len(s) + 1 THEN << >>
  ELSE LET e == RegExpEnd(re, 1, s, start)
       IN IF e # 0 THEN << SubSeq(s, start, e - 1) >>
          ELSE MatchFrom(re, s, start + 1)

\* s.match(new RegExp(re)): the match array, or << >> for null
Match(s, re) == MatchFrom(re, s, 1)

\* a test that takes a match of any part of the path
MatchesRouteAnywhere(list, i, href) ==
  Match(href, routeDynamicSegments(list[i].path)) # << >>

\* path.match(new RegExp(...))?.[0] === path
MatchesRoute(list, i, href) ==
  LET m == Match(href, routeDynamicSegments(list[i].path))
  IN m # << >> /\ m[1] = href

\* list.find(...), as the index of the route found, 0 for undefined
FindRoute(list, href) ==
  LET found == { i \in DOMAIN list : MatchesRoute(list, i, href) }
  IN IF found = {} THEN 0 ELSE Min(found)

(***************************************************************************)
(* Link of components/link.tsx over the routes of the flat compiler         *)
(***************************************************************************)
\* page files of the application a Link lives in
LinkFiles ==
  { Key(<<"index">>),
    Key(<<"posts", "index">>),
    Key(<<"posts", "[slug]">>),
    Key(<<"posts", "new">>),
    Key(<<"settings">>),
    Key(<<"settings", "profile.info">>),
    Key(<<"[...all]">>) }

LinkListings ==
  UNION { { l \in [ 1..n -> LinkFiles ] :
              \A i, j \in 1..n : l[i] = l[j] => i = j } : n \in 0..MaxLinkKeys }

\* values of the prop to
Hrefs ==
  { "/", "/posts/", "/posts/new", "/posts/first-post", "/posts/a/b",
    "/settings", "/settings/profile.info", "/settings/profileXinfo",
    "/x/posts/new", "/about" }

\* the entries of one callback, as their isIntersecting flags
Entries == UNION { [ 1..n -> BOOLEAN ] : n \in 1..MaxEntries }

InitLink == InitWith(LinkListings) /\ mode = "flat"

\* the state a Link does not touch
compiler ==
  << mode, ROUTES, pc, ki, routes, regularRoutes, nodes, segments, index,
     parent, previous, pageVars, viewVars >>

\* const getMatchingRoute = (path) => routes.find(...)
getMatchingRoute(href) == FindRoute(routes, href)

\* an effect that observes whatever the prop prefetch is
ObservesAlways(able, enabled) == able

\* if (prefetchable && prefetch && ref?.current): the effect creates an
\* observer; the anchor is rendered, so ref.current is set
Observes(able, enabled) == able /\ enabled

\* a render is committed with the state prefetched = flag, and its effect
\* has run: the observer is kept, disconnected or created
Commit(flag) ==
  /\ prefetched' = flag
  /\ queued' = FALSE
  /\ prefetchable' = (route' # 0 /\ ~ flag)
  /\ observer' = Observes(prefetchable', prefetch')

\* the first render of a Link and its effect
Mount ==
  /\ mode = "flat" /\ pc = "done"
  /\ ~ mounted
  /\ mounted' = TRUE
  /\ \E href \in Hrefs : to' = href
  /\ prefetch' \in BOOLEAN
  /\ route' = getMatchingRoute(to')
  /\ Commit(FALSE)
  /\ preloads' = 0
  /\ UNCHANGED compiler

\* a later render (of the parent, or for the queued state update) and its
\* effect
Render ==
  /\ mounted
  /\ UNCHANGED << mounted, to, prefetch, route, preloads >>
  /\ Commit(prefetched \/ queued)
  /\ UNCHANGED compiler

\* a render with another value of the prop to: useMemo computes route again,
\* the state prefetched is kept
Navigate ==
  /\ mounted
  /\ \E href \in Hrefs \ { to } : to' = href
  /\ route' = getMatchingRoute(to')
  /\ UNCHANGED << mounted, prefetch, preloads >>
  /\ Commit(prefetched \/ queued)
  /\ UNCHANGED compiler

\* calls times: const preload = () => route?.preload() && setPrefetched(true)
preload(calls) ==
  /\ preloads + calls <= MaxPreloads
  /\ preloads' = preloads + (IF route # 0 THEN calls ELSE 0)

\* the anchor's intersection with the viewport changes; an observer, if
\* there is one, gets the entries:
\* (entries) => entries.forEach((entry) => entry.isIntersecting && preload())
\* The state update of a callback that is not a React event handler is
\* rendered later
IntersectWith(entries) ==
  /\ mounted
  /\ IF observer
       THEN LET calls == Cardinality({ i \in DOMAIN entries : entries[i] })
            IN /\ preload(calls)
               /\ queued' = (queued \/ (route # 0 /\ calls > 0))
       ELSE UNCHANGED << preloads, queued >>
  /\ UNCHANGED << mounted, to, prefetch, route, prefetched, prefetchable,
                  observer >>
  /\ UNCHANGED compiler

Intersect == \E entries \in Entries : IntersectWith(entries)

\* const handleMouseEnter = () => prefetchable && preload()
\* React renders the state update of an event handler before the handler
\* of the next event runs
MouseEnter ==
  /\ mounted
  /\ UNCHANGED << mounted, to, prefetch, route >>
  /\ IF prefetchable
       THEN /\ preload(1)
            /\ Commit(prefetched \/ queued \/ route # 0)
       ELSE UNCHANGED << preloads, queued, prefetched, prefetchable, observer >>
  /\ UNCHANGED compiler

NextLink ==
  \/ FlatMap
  \/ Mount
  \/ Render
  \/ Navigate
  \/ Intersect
  \/ MouseEnter

\* the flat compiler, then one Link and the events it receives
SpecLink == InitLink /\ [][NextLink]_vars

(***************************************************************************)
(* C14 - C16: the Matcher                                                   *)
(***************************************************************************)
RECURSIVE Substituted(_, _, _, _)
\* s from i on is pattern from r on with a non-empty value put in place of
\* every token: a value without "/" for :name, any value for *
Substituted(pattern, r, s, i) ==
  IF r > Len(pattern) THEN i = Len(s) + 1
  ELSE IF CharAt(pattern, r) = ":" /\ WordEnd(pattern, r + 1) > r + 1
    THEN \E k \in (i + 1)..(Len(s) + 1) :
           /\ ~ Includes(SubSeq(s, i, k - 1), "/")
           /\ Substituted(pattern, WordEnd(pattern, r + 1), s, k)
  ELSE IF CharAt(pattern, r) = "*"
    THEN \E k \in (i + 1)..(Len(s) + 1) : Substituted(pattern, r + 1, s, k)
  ELSE /\ i <= Len(s)
       /\ CharAt(s, i) = CharAt(pattern, r)
       /\ Substituted(pattern, r + 1, s, i + 1)

\* C14: a Link whose to is the path of a compiled route with a non-empty
\* value in place of each :name / * token gets that very route from
\* getMatchingRoute, never one listed before it.
C14_RoundTrip ==
  mounted =>
    \A i \in DOMAIN routes :
      Substituted(routes[i].path, 1, to, 1) => route = i

RECURSIVE WholeMatch(_, _, _, _)
\* the pattern re, from r on, can be matched against s from i up to its last
\* character: "." stands for one character, ".*" for any number of them
WholeMatch(re, r, s, i) ==
  IF r > Len(re) THEN i = Len(s) + 1
  ELSE IF StartsWithAt(re, r, ".*")
    THEN \E k \in i..(Len(s) + 1) : WholeMatch(re, r + 2, s, k)
  ELSE /\ i <= Len(s)
       /\ CharAt(re, r) = "." \/ CharAt(re, r) = CharAt(s, i)
       /\ WholeMatch(re, r + 1, s, i + 1)

\* the routes whose pattern matches the whole of href
WholeMatches(href) ==
  { i \in DOMAIN routes :
      WholeMatch(routeDynamicSegments(routes[i].path), 1, href, 1) }

\* C15: getMatchingRoute gives a Link the first route, in compiled order,
\* whose pattern matches to from its first to its last character, and
\* undefined when there is none; a route whose pattern matches only a part
\* of to is never the result.
C15_FirstWholeMatch ==
  mounted =>
    IF WholeMatches(to) = {} THEN route = 0 ELSE route = Min(WholeMatches(to))

\* the second route is the result although the pattern of the first one
\* matches a part of to
C15_Witness ==
  /\ mounted
  /\ route = 2
  /\ Match(to, routeDynamicSegments(routes[1].path)) # << >>

RECURSIVE OneComponentEach(_, _, _, _)
\* s from i on matches pattern from r on with every :name standing for
\* characters of one path component only
OneComponentEach(pattern, r, s, i) ==
  IF r > Len(pattern) THEN i = Len(s) + 1
  ELSE IF CharAt(pattern, r) = ":" /\ WordEnd(pattern, r + 1) > r + 1
    THEN \E k \in i..(Len(s) + 1) :
           /\ ~ Includes(SubSeq(s, i, k - 1), "/")
           /\ OneComponentEach(pattern, WordEnd(pattern, r + 1), s, k)
  ELSE IF CharAt(pattern, r) = "*"
    THEN \E k \in i..(Len(s) + 1) : OneComponentEach(pattern, r + 1, s, k)
  ELSE /\ i <= Len(s)
       /\ CharAt(pattern, r) = "." \/ CharAt(pattern, r) = CharAt(s, i)
       /\ OneComponentEach(pattern, r + 1, s, i + 1)

\* C16: the route getMatchingRoute gives a Link matches to with each :name
\* token bound to a single path component; only * spans several.
C16_OneComponentPerToken ==
  (mounted /\ route # 0) => OneComponentEach(routes[route].path, 1, to, 1)

(***************************************************************************)
(* C19, C20: what makes a Link preload                                      *)
(***************************************************************************)
\* C19: for a Link whose to matches a route: with prefetch = true it is
\* observed as long as it is not prefetched, and entries that intersect make
\* it call preload; with prefetch = false no change of intersection calls
\* preload, only a pointer hover does.
C19_PrefetchTriggers ==
  [][ (mounted /\ mounted') =>
        /\ (route' # 0 /\ prefetch' /\ ~ prefetched') => observer'
        /\ (route # 0 /\ prefetch /\ ~ prefetched) =>
             \A entries \in Entries :
               (IntersectWith(entries) /\ \E i \in DOMAIN entries : entries[i])
                 => preloads' > preloads
        /\ (~ prefetch /\ Intersect) => preloads' = preloads
        /\ (~ prefetch /\ preloads' > preloads) => MouseEnter ]_vars

\* a Link with prefetch = false has preloaded its route
C19_Witness == mounted /\ route # 0 /\ ~ prefetch /\ preloads = 1

\* C20: whatever the order of intersection callbacks, hovers and renders, a
\* Link calls the preload of its route at most once.
C20_PreloadOnce == preloads <= 1

(***************************************************************************)
(* Preserved files: PRESERVED, ROUTES, preserved and Routes of routes.tsx   *)
(***************************************************************************)
\* the class [a-z]
LowerCase ==
  { "a", "b", "c", "d", "e", "f", "g", "h", "i", "j", "k", "l", "m",
    "n", "o", "p", "q", "r", "s", "t", "u", "v", "w", "x", "y", "z" }

\* position of the first character of the basename of file
BaseStart(file) == Max(Positions(file, "/") \cup { 0 }) + 1

\* the pattern '/src/pages/**/*.tsx'
AnyPageGlob(file) ==
  /\ StartsWithAt(file, 1, "/src/pages/")
  /\ Len(file) >= BaseStart(file) + 4
  /\ StartsWithAt(file, Len(file) - 3, ".tsx")

\* the pattern '/src/pages/**/[a-z[]*.tsx': below /src/pages at any depth, a
\* basename that starts with a lower case letter or "[" and ends in .tsx
RegularGlob(file) ==
  /\ StartsWithAt(file, 1, "/src/pages/")
  /\ Len(file) >= BaseStart(file) + 4
  /\ CharAt(file, BaseStart(file)) \in LowerCase \cup { "[" }
  /\ StartsWithAt(file, Len(file) - 3, ".tsx")

\* the pattern '/src/pages/(_app|404).tsx'
PreservedGlob(file) ==
  \E name \in { "_app", "404" } : file = "/src/pages/" \o name \o ".tsx"

RECURSIVE StripPreservedFrom(_, _)
\* .replace(/\/src\/pages\/|\.tsx$/g, '') from position i on
StripPreservedFrom(s, i) ==
  IF i > Len(s) THEN ""
  ELSE IF StartsWithAt(s, i, "/src/pages/") THEN StripPreservedFrom(s, i + 11)
  ELSE IF StartsWithAt(s, i, ".tsx") /\ i + 3 = Len(s) THEN ""
  ELSE CharAt(s, i) \o StripPreservedFrom(s, i + 1)

\* const key = file.replace(/\/src\/pages\/|\.tsx$/g, '')
PreservedKey(file) == StripPreservedFrom(file, 1)

\* PRESERVED[file].default: the component stands for its file
DefaultOf(file) == IF file \in defaults THEN file ELSE "undefined"

Fragment == "Fragment"

RECURSIVE PreservedFrom(_, _)
\* Object.keys(PRESERVED).reduce(..., {}) from key i on:
\* return { ...preserved, [key]: PRESERVED[file].default }
PreservedFrom(acc, i) ==
  IF i > Len(PRESERVED) THEN acc
  ELSE PreservedFrom(
         [ k \in DOMAIN acc \cup { PreservedKey(PRESERVED[i]) } |->
             IF k = PreservedKey(PRESERVED[i]) THEN DefaultOf(PRESERVED[i])
             ELSE acc[k] ],
         i + 1)

\* a lookup that takes the wrapper for every slot
ResolveApp(slot) ==
  IF "_app" \in DOMAIN preserved /\ preserved["_app"] # "undefined"
    THEN preserved["_app"]
    ELSE Fragment

\* preserved?.[slot] || Fragment
Resolve(slot) ==
  IF slot \in DOMAIN preserved /\ preserved[slot] # "undefined"
    THEN preserved[slot]
    ELSE Fragment

\* the orders in which the keys of a glob result can come
Enumerations(S) ==
  { l \in [ 1..Cardinality(S) -> S ] :
      \A i, j \in 1..Cardinality(S) : l[i] = l[j] => i = j }

\* files a project can hold
DiskFiles ==
  { "/src/pages/_app.tsx",
    "/src/pages/404.tsx",
    "/src/pages/index.tsx",
    "/src/pages/posts/[slug].tsx",
    "/src/pages/[user]/settings.tsx",
    "/src/pages/[user]/settings/profile/info.tsx",
    "/src/pages/posts/_app.tsx",
    "/src/pages/posts/404.tsx",
    "/src/pages/About.tsx" }

InitPages ==
  /\ mode \in { "flat", "tree" }
  /\ files \in SUBSET DiskFiles
  /\ defaults \in SUBSET files
  \* a page has a default export, a preserved file may have none
  /\ \A f \in files \ defaults : PreservedGlob(f)
  /\ ROUTES = << >>
  /\ pc = "glob"
  /\ ki = 1
  /\ routes = << >>
  /\ regularRoutes = << >>
  /\ nodes = << >>
  /\ segments = << >>
  /\ index = 0
  /\ parent = EmptyObject
  /\ eager = (mode = "flat")
  /\ loaders = {}
  /\ InitOutside

\* const PRESERVED = import.meta.globEager('/src/pages/(_app|404).tsx')
\* const ROUTES = import.meta.globEager('/src/pages/**/[a-z[]*.tsx')
GlobEager ==
  /\ pc = "glob"
  /\ PRESERVED' \in Enumerations({ f \in files : PreservedGlob(f) })
  /\ ROUTES' \in Enumerations({ f \in files : RegularGlob(f) })
  /\ pc' = "preserved"
  /\ UNCHANGED << mode, ki, routes, regularRoutes, nodes, segments, index,
                  parent, previous, linkVars, files, defaults, preserved, App,
                  NotFound, viewVars >>

\* const preserved = Object.keys(PRESERVED).reduce(..., {})
PreservedReduce ==
  /\ pc = "preserved"
  /\ preserved' = PreservedFrom(NoKeys, 1)
  /\ pc' = IF Len(ROUTES) = 0 THEN "done" ELSE "key"
  /\ UNCHANGED << mode, ROUTES, ki, routes, regularRoutes, nodes, segments,
                  index, parent, previous, linkVars, files, defaults,
                  PRESERVED, App, NotFound, viewVars >>

\* an order that gives the fallback first
RenderOrderFront(regular, fallback) == << fallback >> \o regular

\* the children of Switch: routes.map(...) and then the "*" route; the routes
\* of Router: [...regularRoutes, { path: '*', element: <NotFound /> }]
RenderOrder(regular, fallback) == Append(regular, fallback)

\* ({ path, component: Component = Fragment }) => ... component={Component}
ComponentOr(file) ==
  IF DefaultOf(file) = "undefined" THEN Fragment ELSE DefaultOf(file)

\* the entries of the compiled routes: the flat list, with the components
\* of the modules when these are imported eagerly, or the top of the tree
RegularEntries ==
  IF mode = "flat"
  THEN [ i \in DOMAIN routes |->
           [path |-> routes[i].path,
            component |-> IF eager THEN ComponentOr(routes[i].component)
                          ELSE routes[i].component] ]
  ELSE [ i \in DOMAIN regularRoutes |->
           [path |-> nodes[regularRoutes[i]].path,
            component |-> nodes[regularRoutes[i]].route] ]

\* export const Routes = () => ...: the first render
Routes ==
  /\ pc = "done"
  /\ App = ""
  /\ App' = Resolve("_app")
  /\ NotFound' = Resolve("404")
  /\ rendered' = RenderOrder(RegularEntries,
                             [path |-> "*", component |-> NotFound'])
  /\ UNCHANGED << mode, ROUTES, pc, ki, routes, regularRoutes, nodes, segments,
                  index, parent, previous, linkVars, files, defaults,
                  PRESERVED, preserved, eager, loaders, location, matched,
                  shown, request, invoked >>

NextPages ==
  \/ GlobEager
  \/ PreservedReduce
  \/ Next
  \/ Routes

\* routes.tsx over the files of a project
SpecPages == InitPages /\ [][NextPages]_vars

(***************************************************************************)
(* C17, C18: preserved files                                                *)
(***************************************************************************)
AppFile == "/src/pages/_app.tsx"
NotFoundFile == "/src/pages/404.tsx"

\* C17: _app.tsx and 404.tsx of the pages root are never keys of ROUTES,
\* whose keys all have a basename starting with a lower case letter or "[";
\* no route of the flat list and no route object of the tree comes from
\* them; they give preserved its keys _app and 404, and nothing else does.
C17_PreservedNotRoutes ==
  /\ \A i \in DOMAIN ROUTES :
       /\ ROUTES[i] \notin { AppFile, NotFoundFile }
       /\ CharAt(ROUTES[i], BaseStart(ROUTES[i])) \in LowerCase \cup { "[" }
  /\ \A i \in DOMAIN routes : routes[i].component \notin { AppFile, NotFoundFile }
  /\ \A n \in NodeIds : nodes[n].route \notin { AppFile, NotFoundFile }
  /\ pc \notin { "glob", "preserved" } =>
       DOMAIN preserved =
         { "_app" : f \in files \cap { AppFile } }
           \cup { "404" : f \in files \cap { NotFoundFile } }

\* both preserved files exist next to pages, and the compilers are done
C17_Witness ==
  /\ pc = "done"
  /\ { AppFile, NotFoundFile } \subseteq files
  /\ Len(ROUTES) >= 2
  /\ DOMAIN preserved = { "_app", "404" }

\* C18: App is the default export of _app.tsx when that file exists and has
\* one, and Fragment otherwise; NotFound likewise for 404.tsx; neither
\* depends on the other file.
C18_PreservedDefaults ==
  App # "" =>
    /\ App = IF AppFile \in defaults THEN AppFile ELSE Fragment
    /\ NotFound = IF NotFoundFile \in defaults THEN NotFoundFile ELSE Fragment

\* _app.tsx exists without a default export, 404.tsx has one
C18_Witness ==
  /\ App = Fragment
  /\ AppFile \in files
  /\ NotFound = NotFoundFile

(***************************************************************************)
(* C26 - C28: where the tree compiler inserts, and what it returns          *)
(***************************************************************************)
\* the sibling list that holds the route object n
ListOf(n) == CHOOSE l \in SiblingLists : n \in Range(l)

\* the newest route object is the first of its sibling list when its path
\* starts with a word character or contains "/", and the last one otherwise
NewestPlaced ==
  nodes # << >> =>
    LET n == Len(nodes)
    IN IF Insert(nodes[n].path) = "unshift"
       THEN ListOf(n)[1] = n
       ELSE ListOf(n)[Len(ListOf(n))] = n

\* C26: every route object the tree compiler inserts, a node, a leaf or a
\* single-segment root route, is put at the front of its list when its path
\* starts with a word character or contains "/", and at the back otherwise.
C26_InsertionPosition == [][ Len(nodes') > Len(nodes) => NewestPlaced' ]_vars

\* the path of the first segment of the key at position i of the listing
FirstPath(i) == SegPath(Segments(ROUTES[i])[1])

\* the key at position i is a layout module: one static segment
IsLayout(i) ==
  /\ Len(Segments(ROUTES[i])) = 1
  /\ ~ Dynamic(FirstPath(i))

\* the positions of the modules below the layout module at position i
Under(i) ==
  { j \in DOMAIN ROUTES :
      /\ Len(Segments(ROUTES[j])) > 1
      /\ FirstPath(j) = FirstPath(i) }

\* the layout module at position i comes before every module below it
LayoutFirst(i) ==
  /\ IsLayout(i)
  /\ Under(i) # {}
  /\ \A j \in Under(i) : i < j

\* C27: a layout module a that is processed before every module under a/
\* ends as the only forest entry with the path a; that entry has the
\* element/loader of the layout module and a children array that holds the
\* route objects of the modules below it.
C27_LayoutMerge ==
  TreeDone =>
    \A i \in DOMAIN ROUTES :
      LayoutFirst(i) =>
        LET entries == { n \in Range(regularRoutes) :
                           nodes[n].path = FirstPath(i) }
        IN /\ Cardinality(entries) = 1
           /\ \A n \in entries :
                /\ nodes[n].route = ROUTES[i]
                /\ nodes[n].hasChildren
                /\ \A j \in Under(i) :
                     \E c \in Carriers(ROUTES[j]) :
                       /\ Chain(c)[1] = n
                       /\ Chain(c)[2] \in Range(nodes[n].children)

\* a layout module and two modules below it have been compiled
C27_Witness ==
  /\ TreeDone
  /\ \E i \in DOMAIN ROUTES : LayoutFirst(i) /\ Cardinality(Under(i)) = 2

\* the step is a root or node step, of a module with a static first segment,
\* that goes on to the next segment
RootOrNodeStep ==
  /\ InTree
  /\ (root /\ ~ dynamic /\ ~ last) \/ node
  /\ ~ Dynamic(SegPath(segments[1]))
  /\ pc' = "segment"
  /\ index' = index + 1

\* C28: after a root or node step of a module with a static first segment
\* the cursor is a route object of the current sibling list whose path is
\* the path of the segment, the one found or the one just created (index 0
\* after unshift, the last index after push), and it has a children array.
C28_CursorThreading ==
  [][ RootOrNodeStep =>
        /\ parent'.t = "route"
        /\ LET c == parent'.id
               list == IF root THEN regularRoutes'
                       ELSE nodes'[parent.id].children
           IN /\ c \in Range(list)
              /\ nodes'[c].path = path
              /\ nodes'[c].hasChildren
              /\ IF Len(nodes') > Len(nodes)
                 THEN /\ c = Len(nodes')
                      /\ IF insert = "unshift" THEN list[1] = c
                         ELSE list[Len(list)] = c
                 ELSE c = Find(current, path) ]_vars

\* the cursor is a route object that was pushed behind a sibling
C28_Witness ==
  /\ InTree
  /\ parent.t = "route"
  /\ Insert(nodes[parent.id].path) = "push"
  /\ Len(ListOf(parent.id)) >= 2
  /\ ListOf(parent.id)[Len(ListOf(parent.id))] = parent.id

(***************************************************************************)
(* C30: the tree and the flat compiler on the same key                      *)
(***************************************************************************)
\* a key with a static first segment and no segment that holds "index" or "."
Comparable(key) ==
  /\ Segments(key) # << >>
  /\ ~ Dynamic(Segments(key)[1])
  /\ \A i \in DOMAIN Segments(key) :
       /\ ~ Includes(Segments(key)[i], "index")
       /\ ~ Includes(Segments(key)[i], ".")

\* C30: for a key with a static first segment and without "index" or "." in
\* its segments, the path fragments from the forest root down to the route
\* object of the key, each with "/" in front, give the path of the flat
\* compiler for that key.
C30_TreeFlatAgree ==
  TreeDone =>
    \A i \in DOMAIN ROUTES :
      Comparable(ROUTES[i]) =>
        /\ Carriers(ROUTES[i]) # {}
        /\ \A c \in Carriers(ROUTES[i]) :
             JoinSegs(Fragments(c)) = FlatPath(ROUTES[i])

\* a key of three segments with a dynamic one has been compiled to a tree
C30_Witness ==
  /\ TreeDone
  /\ \E i \in DOMAIN ROUTES :
       /\ Comparable(ROUTES[i])
       /\ Len(Segments(ROUTES[i])) = 3
       /\ \E j \in 2..3 : Dynamic(Segments(ROUTES[i])[j])
       /\ Carriers(ROUTES[i]) # {}

(***************************************************************************)
(* C25: the same listing, compiled twice                                    *)
(***************************************************************************)
RECURSIVE Shape(_)
\* a route object with its children, in their order
Shape(n) ==
  [ path |-> nodes[n].path,
    route |-> nodes[n].route,
    hasChildren |-> nodes[n].hasChildren,
    children |-> [ i \in DOMAIN nodes[n].children |->
                     Shape(nodes[n].children[i]) ] ]

\* the table a run has built: the routes array, or the forest
Table ==
  IF mode = "flat" THEN routes
  ELSE [ i \in DOMAIN regularRoutes |-> Shape(regularRoutes[i]) ]

\* a run that goes on with the arrays of the run before
Kept(array) == array

\* a run starts from new arrays: map returns a new array, the reduce is
\* given [], and every route object is created by the run
Fresh(array) == << >>

\* a second evaluation of routes.tsx over the same listing, in the same order
Rerun ==
  /\ pc = "done"
  /\ previous = NoTree
  /\ previous' = [ t |-> "table", table |-> Table ]
  /\ pc' = IF Len(ROUTES) = 0 THEN "done" ELSE "key"
  /\ ki' = 1
  /\ routes' = Fresh(routes)
  /\ regularRoutes' = Fresh(regularRoutes)
  /\ nodes' = Fresh(nodes)
  /\ segments' = << >>
  /\ index' = 0
  /\ parent' = EmptyObject
  /\ UNCHANGED << mode, ROUTES, linkVars, pageVars, viewVars >>

NextTwice ==
  \/ Next
  \/ Rerun

\* two runs of a compiler over the same listing
SpecTwice == Init /\ [][NextTwice]_vars

C29_PrefetchedOneWay ==
  [][ /\ prefetched => prefetched'
      /\ preloads' > preloads => (prefetched' \/ queued')
      /\ (prefetched \/ queued) => preloads' = preloads ]_vars

(***************************************************************************)
(* Malformed keys: a listing that is not the one of the pages glob          *)
(***************************************************************************)
\* keys without the prefix /src/pages/ or without the extension .tsx, as a
\* listing taken from another root or of other file types gives them
MalformedKeys ==
  { "/app/pages/about.tsx",
    "/src/pages/about.jsx",
    "/src/pages/posts/index.mdx",
    "./pages/[slug].tsx" }

\* the key has the pages root in front and the extension at its end
WellFormed(key) ==
  /\ StartsWithAt(key, 1, "/src/pages/")
  /\ Len(key) >= 4
  /\ StartsWithAt(key, Len(key) - 3, ".tsx")

\* listings of at most two distinct keys, one of them malformed
MalformedListings ==
  { l \in UNION { [1..n -> PageFiles \cup MalformedKeys] : n \in 1..2 } :
      /\ \A i, j \in DOMAIN l : l[i] = l[j] => i = j
      /\ \E i \in DOMAIN l : ~ WellFormed(l[i]) }

InitMalformed == InitWith(MalformedListings)

\* compile a listing that holds a malformed key
SpecMalformed == InitMalformed /\ [][Next]_vars

RenderFiles ==
  { "/src/pages/404.tsx",
    "/src/pages/index.tsx",
    "/src/pages/posts/[slug].tsx",
    "/src/pages/[user]/settings/profile/info.tsx" }

\* the locations visited
Locations == { "/", "/posts/first-post", "/about" }

\* the argument lists the router calls a loader with
Args == { << "match" >>, << "match", "options" >> }

\* the files that may lack a default export
MayLackDefault == { "/src/pages/404.tsx", "/src/pages/index.tsx" }

\* the pages that may export a loader
MayExportLoader == { "/src/pages/index.tsx", "/src/pages/posts/[slug].tsx" }

\* a module may lack a default export, a page of a lazy variant may export a
\* loader
InitRender ==
  /\ mode \in { "flat", "tree" }
  /\ eager \in BOOLEAN
  /\ eager => mode = "flat"
  /\ files \in SUBSET RenderFiles
  /\ defaults \in SUBSET files
  /\ files \ defaults \subseteq MayLackDefault
  /\ loaders \in SUBSET (files \cap MayExportLoader)
  /\ eager => loaders = {}
  /\ ROUTES = << >>
  /\ pc = "glob"
  /\ ki = 1
  /\ routes = << >>
  /\ regularRoutes = << >>
  /\ nodes = << >>
  /\ segments = << >>
  /\ index = 0
  /\ parent = EmptyObject
  /\ InitOutside

\* Switch renders the first of its children whose path matches the location
Switch(list, href) == FindRoute(list, href)

\* the location changes; with eager modules the entry matched renders its
\* component at once
Visit ==
  /\ App # ""
  /\ mode = "flat"
  /\ \E href \in Locations \ { location } :
       /\ location' = href
       /\ matched' = Switch(rendered, href)
  /\ shown' = IF eager /\ matched' # 0 THEN rendered[matched'].component ELSE ""
  /\ UNCHANGED << mode, ROUTES, pc, ki, routes, regularRoutes, nodes, segments,
                  index, parent, previous, linkVars, pageVars, eager, loaders,
                  rendered, request, invoked >>

\* the modules that have a route object with element and loader
LazyRoutes ==
  IF mode = "flat" THEN { routes[i].component : i \in DOMAIN routes }
  ELSE { nodes[n].route : n \in DOMAIN nodes } \ { NoRoute }

Request(what, key, args) ==
  [what |-> what, key |-> key, args |-> args, state |-> "pending",
   result |-> [t |-> "none"]]

\* no call is followed, or the one followed has settled
Settled == request.state \in { "none", "fulfilled", "rejected" }

\* route.element(): module() is called, the import is pending
CallElement ==
  /\ App # ""
  /\ ~ eager
  /\ Settled
  /\ \E key \in LazyRoutes : request' = Request("element", key, << >>)
  /\ invoked' = << >>
  /\ UNCHANGED << mode, ROUTES, pc, ki, routes, regularRoutes, nodes, segments,
                  index, parent, previous, linkVars, pageVars, eager, loaders,
                  rendered, location, matched, shown >>

\* route.loader(...args): module() is called, the import is pending
CallLoader ==
  /\ App # ""
  /\ ~ eager
  /\ Settled
  /\ \E key \in LazyRoutes, args \in Args :
       request' = Request("loader", key, args)
  /\ invoked' = << >>
  /\ UNCHANGED << mode, ROUTES, pc, ki, routes, regularRoutes, nodes, segments,
                  index, parent, previous, linkVars, pageVars, eager, loaders,
                  rendered, location, matched, shown >>

\* the import of the module resolves
ModuleResolves ==
  /\ request.state = "pending"
  /\ request' = [request EXCEPT !.state = "resolved"]
  /\ UNCHANGED << mode, ROUTES, pc, ki, routes, regularRoutes, nodes, segments,
                  index, parent, previous, linkVars, pageVars, eager, loaders,
                  rendered, location, matched, shown, invoked >>

\* the import of the module fails: the promise of .then(...) rejects, its
\* callback is not called
ModuleRejects ==
  /\ request.state = "pending"
  /\ request' = [request EXCEPT !.state = "rejected",
                                !.result = [t |-> "error"]]
  /\ UNCHANGED << mode, ROUTES, pc, ki, routes, regularRoutes, nodes, segments,
                  index, parent, previous, linkVars, pageVars, eager, loaders,
                  rendered, location, matched, shown, invoked >>

\* (mod) => (mod?.default ? <mod.default /> : 'Nothing exported.') of the
\* flat routes, (mod) => (mod?.default ? <mod.default /> : <></>) of the tree
Element(key) ==
  IF key \in defaults THEN key
  ELSE IF mode = "flat" THEN "Nothing exported." ELSE Fragment

\* what the loader of the module key returns for args
Data(key, args) == [t |-> "data", of |-> key, args |-> args]

\* a callback that calls the exported loader without arguments
ThenLoaderNoArgs(key, args) ==
  IF key \in loaders
  THEN [invoke |-> TRUE, args |-> << >>, result |-> Data(key, << >>)]
  ELSE [invoke |-> FALSE, args |-> << >>, result |-> [t |-> "undefined"]]

\* (mod) => mod?.loader?.(...args)
ThenLoader(key, args) ==
  IF key \in loaders
  THEN [invoke |-> TRUE, args |-> args, result |-> Data(key, args)]
  ELSE [invoke |-> FALSE, args |-> << >>, result |-> [t |-> "undefined"]]

\* the callback of module().then(...) runs with the module resolved
Then ==
  /\ request.state = "resolved"
  /\ IF request.what = "element"
     THEN /\ request' = [request EXCEPT
                           !.state = "fulfilled",
                           !.result = [t |-> "element",
                                       of |-> Element(request.key)]]
          /\ UNCHANGED invoked
     ELSE LET r == ThenLoader(request.key, request.args)
          IN /\ request' = [request EXCEPT !.state = "fulfilled",
                                           !.result = r.result]
             /\ invoked' = IF r.invoke
                           THEN Append(invoked, [key |-> request.key,
                                                 args |-> r.args])
                           ELSE invoked
  /\ UNCHANGED << mode, ROUTES, pc, ki, routes, regularRoutes, nodes, segments,
                  index, parent, previous, linkVars, pageVars, eager, loaders,
                  rendered, location, matched, shown >>

NextRender ==
  \/ GlobEager
  \/ PreservedReduce
  \/ Next
  \/ Routes
  \/ Visit
  \/ CallElement
  \/ CallLoader
  \/ ModuleResolves
  \/ ModuleRejects
  \/ Then

\* routes.tsx over the files of a project, rendered and loaded
SpecRender == InitRender /\ [][NextRender]_vars

(***************************************************************************)
(* C21 - C23: loaders, missing default exports, the not-found fallback      *)
(***************************************************************************)
\* C21: the loader a module exports is called only by a call of the route's
\* loader whose module has resolved, once, for that module and with the
\* arguments of that call, and its result is the result of the call; a
\* module without a loader gives undefined and no error; while the import is
\* pending, and when it has failed, the exported loader has not been called.
C21_LoaderAfterModule ==
  /\ \A j \in DOMAIN invoked :
       /\ request.what = "loader"
       /\ request.state = "fulfilled"
       /\ invoked[j].key = request.key
       /\ invoked[j].key \in loaders
       /\ invoked[j].args = request.args
  /\ request.what = "loader" =>
       /\ request.state = "fulfilled" =>
            /\ request.result = IF request.key \in loaders
                                THEN Data(request.key, request.args)
                                ELSE [t |-> "undefined"]
            /\ Len(invoked) = IF request.key \in loaders THEN 1 ELSE 0
       /\ request.state # "fulfilled" => invoked = << >>
       /\ request.result = [t |-> "error"] => request.state = "rejected"

\* a loader was called with two arguments, its module has resolved and the
\* call has returned the data of the exported loader
C21_Witness ==
  /\ request.what = "loader"
  /\ request.state = "fulfilled"
  /\ request.key \in loaders
  /\ Len(request.args) = 2
  /\ invoked = << [key |-> request.key, args |-> request.args] >>

\* C22: a route whose module has no default export renders nothing, a route
\* whose module has one renders it: with eager modules what the entry
\* matched shows, with lazy modules what element() resolves to.
C22_MissingDefaultEmpty ==
  /\ (eager /\ matched # 0 /\ matched < Len(rendered)) =>
       shown = IF routes[matched].component \in defaults
               THEN routes[matched].component ELSE Fragment
  /\ (request.what = "element" /\ request.state = "fulfilled") =>
       request.result =
         [t |-> "element",
          of |-> IF request.key \in defaults THEN request.key ELSE Fragment]

\* C23: once Routes has rendered, the last entry is the "*" route with the
\* component of 404.tsx (Fragment without it), the entries before it are the
\* regular routes in their order, and a location shows the last entry
\* exactly when no regular entry matches it.
C23_FallbackLast ==
  App # "" =>
    /\ Len(rendered) = Len(RegularEntries) + 1
    /\ rendered[Len(rendered)] = [path |-> "*", component |-> NotFound]
    /\ NotFound = IF NotFoundFile \in defaults THEN NotFoundFile ELSE Fragment
    /\ \A i \in DOMAIN RegularEntries : rendered[i] = RegularEntries[i]
    /\ location # "" =>
         /\ matched \in DOMAIN rendered
         /\ \A i \in 1..(matched - 1) : ~ MatchesRoute(rendered, i, location)
         /\ matched = Len(rendered) <=>
              \A i \in DOMAIN RegularEntries :
                ~ MatchesRoute(RegularEntries, i, location)

\* a location no regular route matches shows the component of 404.tsx,
\* with two regular routes in front of the fallback
C23_Witness ==
  /\ App # ""
  /\ Len(rendered) = 3
  /\ location = "/about"
  /\ matched = 3
  /\ NotFound = NotFoundFile
  /\ eager /\ shown = NotFoundFile

=============================================================================
